---- MODULE Spec2Model ----
(***************************************************************************)
(* Kamaji: reconciliation of three managed resources of a tenant control   *)
(* plane: the konnectivity patch of the shared Deployment, the             *)
(* konnectivity ClusterRoleBinding and the datastore Config secret.        *)
(***************************************************************************)
EXTENDS Integers, Sequences, FiniteSets, TLC

VARIABLES
    tcpSpec,     \* tenantControlPlane.Spec (add-on, replicas)
    tcpStatus,   \* tenantControlPlane.Status (add-on and storage parts)
    dep,         \* the Deployment in the management store
    crb,         \* the ClusterRoleBinding in the tenant store
    secret,      \* the Config secret in the management store
    rDep,        \* KubernetesDeploymentResource.resource
    rCrb,        \* ClusterRoleBindingResource.resource
    rCfg,        \* Config.resource
    pcDep,       \* position of the Deployment resource in its cycle
    pcCrb,       \* position of the ClusterRoleBinding resource in its cycle
    pcCfg,       \* position of the Config resource in its cycle
    stale,       \* per kind: the stored object was written since the last fetch
    cfgIn,       \* Config.ConnString and Config.DataStore name
    hist,        \* completed operations, oldest first
    cycles,      \* cycles started
    edits,       \* writes made by other actors
    uuids        \* passwords generated so far

vars == <<tcpSpec, tcpStatus, dep, crb, secret, rDep, rCrb, rCfg,
          pcDep, pcCrb, pcCfg, stale, cfgIn, hist, cycles, edits, uuids>>

----------------------------------------------------------------------------
\* Bounds of the model.

MaxLen == 2
MaxTotal == 3
MaxCycles == 3
MaxFnOps == 2
MaxEdits == 1

----------------------------------------------------------------------------
\* Constants of package konnectivity.

konnectivityEgressSelectorConfigurationPath == "/etc/kubernetes/konnectivity/configurations/egress-selector-configuration.yaml"
konnectivityServerName == "konnectivity-server"
konnectivityServerPath == "/run/konnectivity"
egressSelectorConfigurationVolume == "egress-selector-configuration"
konnectivityUDSVolume == "konnectivity-uds"
konnectivityServerKubeconfigVolume == "konnectivity-server-kubeconfig"
kubeAPIServerName == "kube-apiserver"
egressSelectorFlag == "--egress-selector-config-file"
AgentName == "konnectivity-agent"
CertCommonName == "system:konnectivity-server"
roleAuthDelegator == "system:auth-delegator"
AdminPort == 8133
HealthPort == 8134
DefaultMode == 420

\* Operation results of controllerutil and the errors of the model.
OperationResultNone == "unchanged"
OperationResultCreated == "created"
OperationResultUpdated == "updated"
NoErr == ""
ErrNotReady == "the Deployment resource is not ready to be mangled for Konnectivity server enrichment"
ErrMissingAPIServer == "cannot sync patch kube-apiserver container: missing kube-apiserver container, cannot patch arguments"
ErrConflict == "conflict"
ErrAlreadyExists == "already exists"
ErrNotFound == "not found"
ErrForbidden == "forbidden"
ErrAlreadyOwned == "already owned"

----------------------------------------------------------------------------
\* Sequence helpers.

RemoveAt(s, i) == SubSeq(s, 1, i - 1) \o SubSeq(s, i + 1, Len(s))

SeqsUpTo(S, n) == UNION {[1..k -> S] : k \in 0..n}

Names(s) == {s[i].name : i \in DOMAIN s}

\* Number of elements of s called name.
CountNamed(s, name) == Cardinality({i \in DOMAIN s : s[i].name = name})

----------------------------------------------------------------------------
\* Argument-list codec. A token "--flag=value" is <<flag, value>>; the bare
\* token "--flag" is <<flag, "">>. The map is a function from flags to values.

\* The flags of the model in the order of their strings.
FlagOrder == <<"--admin-port", "--advertise-address", "--agent-namespace",
               "--agent-port", "--agent-service-account",
               "--authentication-audience", "--cluster-cert", "--cluster-key",
               "--egress-selector-config-file", "--health-port", "--kubeconfig",
               "--mode", "--server-count", "--server-port", "--uds-name", "--v">>

\* Later tokens of a repeated flag overwrite earlier ones.
ArgsFromSliceToMap(args) ==
    [f \in {args[i][1] : i \in DOMAIN args} |->
        LET last == CHOOSE i \in DOMAIN args :
                        /\ args[i][1] = f
                        /\ \A j \in DOMAIN args : args[j][1] = f => j <= i
        IN  args[last][2]]

RECURSIVE EncodeFrom(_, _)
EncodeFrom(m, i) ==
    IF i > Len(FlagOrder) THEN <<>>
    ELSE (IF FlagOrder[i] \in DOMAIN m
          THEN <<(<<FlagOrder[i], m[FlagOrder[i]]>>)>> ELSE <<>>)
         \o EncodeFrom(m, i + 1)

\* The map carries no order: the list is rebuilt in the order of the strings.
ArgsFromMapToSlice(m) == EncodeFrom(m, 1)

\* m[flag] = value, as the Go statement args[flag] = value.
MapSet(m, flag, value) ==
    [f \in DOMAIN m \cup {flag} |-> IF f = flag THEN value ELSE m[f]]

ArgsAddFlagValue(m, flag, value) == MapSet(m, flag, value)

ArgsRemoveFlag(m, flag) ==
    [found |-> flag \in DOMAIN m,
     args  |-> [f \in DOMAIN m \ {flag} |-> m[f]]]

----------------------------------------------------------------------------
\* Named-element locator: found and the position of the first match.

HasNamed(s, name) ==
    IF \E i \in DOMAIN s : s[i].name = name
    THEN [found |-> TRUE,
          index |-> CHOOSE i \in DOMAIN s :
                        /\ s[i].name = name
                        /\ \A j \in DOMAIN s : s[j].name = name => i <= j]
    ELSE [found |-> FALSE, index |-> 0]

HasNamedContainer(containers, name) == HasNamed(containers, name)
HasNamedVolume(volumes, name) == HasNamed(volumes, name)
HasNamedVolumeMount(mounts, name) == HasNamed(mounts, name)

----------------------------------------------------------------------------
\* Objects of the Deployment.

EmptyContainer ==
    [name |-> "", image |-> <<>>, command |-> <<>>, args |-> <<>>,
     ports |-> <<>>, mounts |-> <<>>, probe |-> "", pullPolicy |-> "",
     resources |-> ""]

EmptyVolumeMount == [name |-> "", mountPath |-> "", subPath |-> "", readOnly |-> FALSE]

EmptyVolume == [name |-> "", kind |-> "", ref |-> "", mode |-> 0]

\* The shell Define allocates; exists is FALSE until the object is read from
\* or written to a store.
EmptyDeployment == [exists |-> FALSE, containers |-> <<>>, volumes |-> <<>>]

NilKonnectivity ==
    [present |-> FALSE, image |-> "", version |-> "", port |-> 0,
     extraArgs |-> <<>>, resources |-> ""]

\* The argument map syncContainer builds: the fixed flags win over ExtraArgs.
RECURSIVE MapSetAll(_, _)
MapSetAll(m, pairs) ==
    IF pairs = <<>> THEN m
    ELSE MapSetAll(MapSet(m, pairs[1][1], pairs[1][2]), Tail(pairs))

KonnectivityServerArgs(spec) ==
    MapSetAll(ArgsFromSliceToMap(spec.konn.extraArgs),
        << <<"--uds-name", "/run/konnectivity/konnectivity-server.socket">>,
           <<"--cluster-cert", "/etc/kubernetes/pki/apiserver.crt">>,
           <<"--cluster-key", "/etc/kubernetes/pki/apiserver.key">>,
           <<"--mode", "grpc">>,
           <<"--server-port", "0">>,
           <<"--agent-port", ToString(spec.konn.port)>>,
           <<"--admin-port", ToString(AdminPort)>>,
           <<"--health-port", ToString(HealthPort)>>,
           <<"--agent-namespace", "kube-system">>,
           <<"--agent-service-account", AgentName>>,
           <<"--kubeconfig", "/etc/kubernetes/konnectivity-server.conf">>,
           <<"--authentication-audience", CertCommonName>>,
           <<"--server-count", ToString(spec.replicas)>> >>)

KonnectivityServerMounts ==
    << [name |-> "etc-kubernetes-pki", mountPath |-> "/etc/kubernetes/pki",
        subPath |-> "", readOnly |-> TRUE],
       [name |-> "konnectivity-server-kubeconfig",
        mountPath |-> "/etc/kubernetes/konnectivity-server.conf",
        subPath |-> "konnectivity-server.conf", readOnly |-> TRUE],
       [name |-> konnectivityUDSVolume, mountPath |-> konnectivityServerPath,
        subPath |-> "", readOnly |-> FALSE] >>

\* Every field syncContainer assigns to the slot of the sidecar.
KonnectivityServerContainer(c, spec) ==
    [c EXCEPT
        !.name = konnectivityServerName,
        !.image = <<spec.konn.image, spec.konn.version>>,
        !.command = <<"/proxy-server">>,
        !.args = ArgsFromMapToSlice(KonnectivityServerArgs(spec)),
        !.probe = "httpGet /healthz 8134",
        !.ports = << <<"agentport", spec.konn.port>>,
                     <<"adminport", AdminPort>>,
                     <<"healthport", HealthPort>> >>,
        !.mounts = KonnectivityServerMounts,
        !.pullPolicy = "Always",
        !.resources = spec.konn.resources]

\* The slot of the element called name: its position, or a new last element.
SlotAlwaysAppended(s, name, empty) ==
    [seq |-> Append(s, empty), index |-> Len(s) + 1]

Slot(s, name, empty) ==
    LET h == HasNamed(s, name)
    IN  IF h.found THEN [seq |-> s, index |-> h.index]
        ELSE [seq |-> Append(s, empty), index |-> Len(s) + 1]

syncContainer(containers, spec) ==
    LET sl == Slot(containers, konnectivityServerName, EmptyContainer)
    IN  [sl.seq EXCEPT ![sl.index] = KonnectivityServerContainer(@, spec)]

\* One volume mount of the primary container, located or appended by name.
PatchMount(mounts, name, path) ==
    LET sl == Slot(mounts, name, EmptyVolumeMount)
    IN  [sl.seq EXCEPT ![sl.index] =
            [@ EXCEPT !.name = name, !.readOnly = FALSE, !.mountPath = path]]

\* As patchKubeAPIServerContainer, without the check of the primary container.
patchKubeAPIServerContainerUnchecked(containers) ==
    LET h == HasNamedContainer(containers, kubeAPIServerName)
    IN  IF ~h.found
        THEN [err |-> NoErr, containers |-> containers]
        ELSE
          LET c == containers[h.index]
              args == ArgsAddFlagValue(ArgsFromSliceToMap(c.args),
                          egressSelectorFlag,
                          konnectivityEgressSelectorConfigurationPath)
              m1 == PatchMount(c.mounts, konnectivityUDSVolume, konnectivityServerPath)
              m2 == PatchMount(m1, egressSelectorConfigurationVolume,
                        "/etc/kubernetes/konnectivity/configurations")
          IN  [err |-> NoErr,
               containers |-> [containers EXCEPT ![h.index] =
                    [c EXCEPT !.args = ArgsFromMapToSlice(args), !.mounts = m2]]]

patchKubeAPIServerContainer(containers) ==
    LET h == HasNamedContainer(containers, kubeAPIServerName)
    IN  IF ~h.found
        THEN [err |-> ErrMissingAPIServer, containers |-> containers]
        ELSE
          LET c == containers[h.index]
              args == ArgsAddFlagValue(ArgsFromSliceToMap(c.args),
                          egressSelectorFlag,
                          konnectivityEgressSelectorConfigurationPath)
              m1 == PatchMount(c.mounts, konnectivityUDSVolume, konnectivityServerPath)
              m2 == PatchMount(m1, egressSelectorConfigurationVolume,
                        "/etc/kubernetes/konnectivity/configurations")
          IN  [err |-> NoErr,
               containers |-> [containers EXCEPT ![h.index] =
                    [c EXCEPT !.args = ArgsFromMapToSlice(args), !.mounts = m2]]]

\* As PatchVolume, the volume appended without looking for its name.
PatchVolumeAppends(volumes, name, kind, ref, mode) ==
    Append(volumes, [name |-> name, kind |-> kind, ref |-> ref, mode |-> mode])

\* One volume of the pod template, located or appended by name.
PatchVolume(volumes, name, kind, ref, mode) ==
    LET sl == Slot(volumes, name, EmptyVolume)
    IN  [sl.seq EXCEPT ![sl.index] =
            [name |-> name, kind |-> kind, ref |-> ref, mode |-> mode]]

syncVolumes(volumes, status) ==
    LET v1 == PatchVolume(volumes, konnectivityUDSVolume, "EmptyDir", "Memory", 0)
        v2 == PatchVolume(v1, egressSelectorConfigurationVolume, "ConfigMap",
                          status.configMapName, DefaultMode)
    IN  PatchVolume(v2, konnectivityServerKubeconfigVolume, "Secret",
                    status.kubeconfigSecretName, DefaultMode)

\* KubernetesDeploymentResource.mutate: the error and the object it leaves
\* in r.resource.
DeploymentMutate(obj, spec, status) ==
    IF ~spec.konn.present THEN [err |-> NoErr, obj |-> obj]
    ELSE IF Len(obj.containers) = 0 THEN [err |-> ErrNotReady, obj |-> obj]
    ELSE
      LET cs == syncContainer(obj.containers, spec)
          p  == patchKubeAPIServerContainer(cs)
      IN  IF p.err # NoErr
          THEN [err |-> p.err, obj |-> [obj EXCEPT !.containers = cs]]
          ELSE [err |-> NoErr,
                obj |-> [obj EXCEPT !.containers = p.containers,
                                    !.volumes = syncVolumes(obj.volumes, status)]]

\* As RemoveNamed, the elements after the removed one dropped with it.
RemoveNamedTruncates(s, name) ==
    LET h == HasNamed(s, name)
    IN  IF h.found THEN SubSeq(s, 1, h.index - 1) ELSE s

\* Removal of the first element called name, if there is one.
RemoveNamed(s, name) ==
    LET h == HasNamed(s, name)
    IN  IF h.found THEN RemoveAt(s, h.index) ELSE s

RECURSIVE RemoveAllNamed(_, _)
RemoveAllNamed(s, names) ==
    IF names = <<>> THEN s
    ELSE RemoveAllNamed(RemoveNamed(s, names[1]), Tail(names))

\* The volumes and the mounts CleanUp removes, in the order of its loops.
CleanUpVolumeNames == <<konnectivityUDSVolume, egressSelectorConfigurationVolume>>
CleanUpVolumeMountNames ==
    <<konnectivityUDSVolume, egressSelectorConfigurationVolume,
      konnectivityServerKubeconfigVolume>>

\* As CleanUpMutate, writing the argument list back whether or not the flag
\* was there.
CleanUpMutateAlwaysEncodes(obj) ==
    LET cs == RemoveNamed(obj.containers, konnectivityServerName)
        h  == HasNamedContainer(cs, kubeAPIServerName)
    IN  IF ~h.found THEN [err |-> NoErr, obj |-> [obj EXCEPT !.containers = cs]]
        ELSE
          LET c  == cs[h.index]
              rm == ArgsRemoveFlag(ArgsFromSliceToMap(c.args), egressSelectorFlag)
              mounts == RemoveAllNamed(c.mounts, CleanUpVolumeMountNames)
          IN  [err |-> NoErr,
               obj |-> [obj EXCEPT
                    !.containers = [cs EXCEPT ![h.index] =
                        [c EXCEPT !.args = ArgsFromMapToSlice(rm.args),
                                  !.mounts = mounts]],
                    !.volumes = RemoveAllNamed(obj.volumes, CleanUpVolumeNames)]]

\* The mutation closure of KubernetesDeploymentResource.CleanUp.
CleanUpMutate(obj) ==
    LET cs == RemoveNamed(obj.containers, konnectivityServerName)
        h  == HasNamedContainer(cs, kubeAPIServerName)
    IN  IF ~h.found THEN [err |-> NoErr, obj |-> [obj EXCEPT !.containers = cs]]
        ELSE
          LET c  == cs[h.index]
              rm == ArgsRemoveFlag(ArgsFromSliceToMap(c.args), egressSelectorFlag)
              args == IF rm.found THEN ArgsFromMapToSlice(rm.args) ELSE c.args
              mounts == RemoveAllNamed(c.mounts, CleanUpVolumeMountNames)
          IN  [err |-> NoErr,
               obj |-> [obj EXCEPT
                    !.containers = [cs EXCEPT ![h.index] =
                                      [c EXCEPT !.args = args, !.mounts = mounts]],
                    !.volumes = RemoveAllNamed(obj.volumes, CleanUpVolumeNames)]]

----------------------------------------------------------------------------
\* The object store: controllerutil.CreateOrUpdate and the retry on conflict.

\* What controllerutil.CreateOrUpdate does once it has fetched the object:
\* cur is the stored object now, fetched the object it read, m the mutation
\* applied to fetched, isStale whether cur was written since the fetch.
CreateOrUpdateOutcome(cur, fetched, m, isStale) ==
    IF m.err # NoErr
    THEN [store |-> cur, res |-> OperationResultNone, err |-> m.err]
    ELSE IF ~fetched.exists
    THEN IF cur.exists
         THEN [store |-> cur, res |-> OperationResultNone, err |-> ErrAlreadyExists]
         ELSE [store |-> [m.obj EXCEPT !.exists = TRUE],
               res |-> OperationResultCreated, err |-> NoErr]
    ELSE IF m.obj = fetched
    THEN [store |-> cur, res |-> OperationResultNone, err |-> NoErr]
    ELSE IF isStale
    THEN [store |-> cur, res |-> OperationResultNone, err |-> ErrConflict]
    ELSE [store |-> m.obj, res |-> OperationResultUpdated, err |-> NoErr]

\* utilities.CreateOrUpdateWithConflict runs the sequence again on a conflict.
RetriesOnConflict(err) == err = ErrConflict

\* The record of a completed operation.
\* The object the resource holds in memory when CreateOrUpdate returns: the
\* one it wrote, or the one its mutation computed.
Held(o, m) == IF o.err = NoErr /\ o.res # OperationResultNone THEN o.store ELSE m.obj

\* The record of a completed operation: the object it fetched (pre), the
\* stored object when it returned (post), the object it holds (obj).
Done(kind, op, pre, o, obj, didWork) ==
    [kind |-> kind, op |-> op, spec |-> tcpSpec, status |-> tcpStatus,
     pre |-> pre, post |-> o.store, obj |-> obj, res |-> o.res, err |-> o.err,
     didWork |-> didWork]

Last == hist[Len(hist)]

----------------------------------------------------------------------------
\* The tenant control plane.

Konnectivity1 ==
    [present |-> TRUE, image |-> "konnectivity-server", version |-> "v1",
     port |-> 8132, extraArgs |-> <<>>, resources |-> ""]

Konnectivity2 ==
    [present |-> TRUE, image |-> "konnectivity-server", version |-> "v2",
     port |-> 8131, extraArgs |-> << <<"--mode", "http">>, <<"--v", "4">> >>,
     resources |-> "limits"]

TenantSpecs ==
    {[konn |-> k, replicas |-> 2] : k \in {NilKonnectivity, Konnectivity1, Konnectivity2}}

Status0 ==
    [enabled |-> FALSE, crbName |-> "", configMapName |-> "cm",
     kubeconfigSecretName |-> "kubeconfig", checksum |-> <<>>,
     dataStoreName |-> "", setupSchema |-> "", setupUser |-> "",
     secretName |-> "", driver |-> ""]

----------------------------------------------------------------------------
\* KubernetesDeploymentResource.

DepShouldStatusBeUpdated ==
    \/ ~tcpSpec.konn.present /\ tcpStatus.enabled
    \/ tcpSpec.konn.present /\ ~tcpStatus.enabled

DepShouldCleanupNever == FALSE

DepShouldCleanup == ~tcpSpec.konn.present /\ tcpStatus.enabled

\* Define: a new shell at the start of a cycle.
DepDefine ==
    /\ pcDep = "idle"
    /\ cycles < MaxCycles
    /\ rDep' = EmptyDeployment
    /\ pcDep' = "defined"
    /\ cycles' = cycles + 1
    /\ UNCHANGED <<tcpSpec, tcpStatus, dep, crb, secret, rCrb, rCfg, pcCrb,
                   pcCfg, stale, cfgIn, hist, edits, uuids>>

\* The fetch of CreateOrUpdateWithConflict, for CleanUp or for CreateOrUpdate.
DepFetch ==
    /\ pcDep = "defined"
    /\ rDep' = dep
    /\ stale' = [stale EXCEPT !.dep = FALSE]
    /\ pcDep' = IF DepShouldCleanup THEN "cleanup" ELSE "createOrUpdate"
    /\ UNCHANGED <<tcpSpec, tcpStatus, dep, crb, secret, rCrb, rCfg, pcCrb,
                   pcCfg, cfgIn, hist, cycles, edits, uuids>>

\* The mutation and the write of one attempt; a conflict goes back to the fetch.
DepPersist(op, m) ==
    LET o == CreateOrUpdateOutcome(dep, rDep, m, stale.dep)
    IN  IF RetriesOnConflict(o.err)
        THEN /\ pcDep' = "defined"
             /\ rDep' = m.obj
             /\ UNCHANGED <<dep, hist>>
        ELSE /\ pcDep' = "status"
             /\ dep' = o.store
             /\ rDep' = Held(o, m)
             /\ hist' = Append(hist, Done("dep", op, rDep, o, Held(o, m),
                                          o.res = OperationResultUpdated))

DepCleanUp ==
    /\ pcDep = "cleanup"
    /\ DepPersist("CleanUp", CleanUpMutate(rDep))
    /\ UNCHANGED <<tcpSpec, tcpStatus, crb, secret, rCrb, rCfg, pcCrb,
                   pcCfg, stale, cfgIn, cycles, edits, uuids>>

\* As DepCreateOrUpdate, the computed object written whatever the version of
\* the stored one.
DepCreateOrUpdateOverwrites ==
    /\ pcDep = "createOrUpdate"
    /\ LET m == DeploymentMutate(rDep, tcpSpec, tcpStatus)
           o == CreateOrUpdateOutcome(dep, rDep, m, FALSE)
       IN  /\ pcDep' = "status"
           /\ dep' = o.store
           /\ rDep' = Held(o, m)
           /\ hist' = Append(hist, Done("dep", "CreateOrUpdate", rDep, o,
                                        Held(o, m), FALSE))
    /\ UNCHANGED <<tcpSpec, tcpStatus, crb, secret, rCrb, rCfg, pcCrb,
                   pcCfg, stale, cfgIn, cycles, edits, uuids>>

DepCreateOrUpdate ==
    /\ pcDep = "createOrUpdate"
    /\ DepPersist("CreateOrUpdate", DeploymentMutate(rDep, tcpSpec, tcpStatus))
    /\ UNCHANGED <<tcpSpec, tcpStatus, crb, secret, rCrb, rCfg, pcCrb,
                   pcCfg, stale, cfgIn, cycles, edits, uuids>>

DepUpdateTenantControlPlaneStatus ==
    /\ pcDep = "status"
    /\ Last.err = NoErr
    /\ DepShouldStatusBeUpdated
    /\ tcpStatus' = [tcpStatus EXCEPT !.enabled = tcpSpec.konn.present]
    /\ pcDep' = "idle"
    /\ UNCHANGED <<tcpSpec, dep, crb, secret, rDep, rCrb, rCfg, pcCrb, pcCfg,
                   stale, cfgIn, hist, cycles, edits, uuids>>

\* The cycle ends without a status update: the operation failed, or
\* ShouldStatusBeUpdated is false.
DepEndCycle ==
    /\ pcDep = "status"
    /\ Last.err # NoErr \/ ~DepShouldStatusBeUpdated
    /\ pcDep' = "idle"
    /\ UNCHANGED <<tcpSpec, tcpStatus, dep, crb, secret, rDep, rCrb, rCfg,
                   pcCrb, pcCfg, stale, cfgIn, hist, cycles, edits, uuids>>

\* The add-on is enabled, reconfigured or removed in Spec between two cycles.
ChangeSpec(specs) ==
    /\ pcDep = "idle" /\ pcCrb = "idle" /\ pcCfg = "idle"
    /\ 0 < cycles /\ cycles < MaxCycles
    /\ \E s \in specs : s # tcpSpec /\ tcpSpec' = s
    /\ UNCHANGED <<tcpStatus, dep, crb, secret, rDep, rCrb, rCfg, pcDep, pcCrb,
                   pcCfg, stale, cfgIn, hist, cycles, edits, uuids>>

\* Another actor writes the Deployment: one more volume, or the image and a
\* flag of the primary container.
OtherActorDeployments(d) ==
    LET h == HasNamedContainer(d.containers, kubeAPIServerName)
    IN  {[d EXCEPT !.volumes = Append(@, [name |-> "audit", kind |-> "HostPath",
                                           ref |-> "/var/log", mode |-> 0])]}
        \cup (IF h.found
              THEN {[d EXCEPT !.containers[h.index] =
                        [@ EXCEPT !.image = <<"kube-apiserver", "v2">>,
                                  !.args = ArgsFromMapToSlice(
                                      MapSet(ArgsFromSliceToMap(@), "--v", "9"))]]}
              ELSE {})

EditDeployment ==
    /\ edits < MaxEdits
    /\ dep.exists
    /\ pcDep \in {"idle", "cleanup", "createOrUpdate"}
    /\ \E d \in OtherActorDeployments(dep) : d # dep /\ dep' = d
    /\ stale' = [stale EXCEPT !.dep = TRUE]
    /\ edits' = edits + 1
    /\ UNCHANGED <<tcpSpec, tcpStatus, crb, secret, rDep, rCrb, rCfg, pcDep,
                   pcCrb, pcCfg, cfgIn, hist, cycles, uuids>>

----------------------------------------------------------------------------
\* The Deployments the model starts from.

PrimaryContainer(args, mounts) ==
    [EmptyContainer EXCEPT !.name = kubeAPIServerName,
                           !.image = <<"kube-apiserver", "v1">>,
                           !.command = <<"kube-apiserver">>,
                           !.args = args, !.mounts = mounts]

OtherContainer ==
    [EmptyContainer EXCEPT !.name = "metrics", !.image = <<"metrics", "v1">>]

\* A container of the sidecar's name whose fields come from elsewhere.
OldSidecar ==
    [EmptyContainer EXCEPT !.name = konnectivityServerName,
                           !.image = <<"konnectivity-server", "v0">>,
                           !.args = << <<"--mode", "http">> >>]

ArgTokens ==
    {<<"--v", "4">>, <<"--advertise-address", "">>, <<egressSelectorFlag, "/old.yaml">>}

MountTokens ==
    {[name |-> "data", mountPath |-> "/data", subPath |-> "", readOnly |-> FALSE],
     [name |-> konnectivityUDSVolume, mountPath |-> "/old", subPath |-> "",
      readOnly |-> TRUE],
     [name |-> konnectivityServerKubeconfigVolume, mountPath |-> "/kubeconfig",
      subPath |-> "", readOnly |-> TRUE]}

VolumeTokens ==
    {[name |-> "data", kind |-> "HostPath", ref |-> "/data", mode |-> 0],
     [name |-> konnectivityUDSVolume, kind |-> "HostPath", ref |-> "/old", mode |-> 0],
     [name |-> konnectivityServerKubeconfigVolume, kind |-> "Secret",
      ref |-> "old", mode |-> DefaultMode]}

AddonNames ==
    {konnectivityUDSVolume, egressSelectorConfigurationVolume,
     konnectivityServerKubeconfigVolume}

ContainerLayouts(p) ==
    {<<p>>, <<OtherContainer, p>>, <<p, OldSidecar>>, <<OldSidecar, p>>}

FnDeployments ==
    {EmptyDeployment}
    \cup {[exists |-> TRUE, containers |-> cs, volumes |-> vs] :
            cs \in {<<>>, <<OtherContainer>>, <<OldSidecar>>},
            vs \in SeqsUpTo(VolumeTokens, 1)}
    \cup UNION UNION {{{[exists |-> TRUE, containers |-> cs, volumes |-> vs] :
                            cs \in ContainerLayouts(PrimaryContainer(as, ms))} :
                        vs \in {v \in SeqsUpTo(VolumeTokens, MaxLen) :
                                    Len(as) + Len(ms) + Len(v) <= MaxTotal}} :
                    as \in SeqsUpTo(ArgTokens, MaxLen),
                    ms \in SeqsUpTo(MountTokens, MaxLen)}

HasPrimary(d) == HasNamedContainer(d.containers, kubeAPIServerName).found
HasSidecar(d) == HasNamedContainer(d.containers, konnectivityServerName).found
Primary(d) == d.containers[HasNamedContainer(d.containers, kubeAPIServerName).index]

\* A Deployment as the reconciliation of a tenant without the add-on leaves it:
\* arguments as the codec writes them, no element of the add-on.
Pristine(d) ==
    /\ ~HasSidecar(d)
    /\ Names(d.volumes) \cap AddonNames = {}
    /\ Cardinality(Names(d.volumes)) = Len(d.volumes)
    /\ HasPrimary(d) =>
          /\ Primary(d).args = ArgsFromMapToSlice(ArgsFromSliceToMap(Primary(d).args))
          /\ egressSelectorFlag \notin DOMAIN ArgsFromSliceToMap(Primary(d).args)
          /\ Names(Primary(d).mounts) \cap AddonNames = {}
          /\ Cardinality(Names(Primary(d).mounts)) = Len(Primary(d).mounts)

\* The Deployments the cycles start from: a volume of another actor is
\* there exactly when the primary container mounts it.
CycleDeployments ==
    {d \in FnDeployments :
        /\ Pristine(d)
        /\ Len(d.volumes) <= 1
        /\ HasPrimary(d) => Len(Primary(d).mounts) = Len(d.volumes)
        /\ ~HasPrimary(d) => Len(d.volumes) = 0}

\* The shell ClusterRoleBindingResource.Define allocates.
EmptyBinding ==
    [exists |-> FALSE, labels |-> {},
     roleRef |-> [apiGroup |-> "", kind |-> "", name |-> ""], subjects |-> <<>>]

\* The shell Config.Define allocates: no data, no annotation, no owner.
EmptySecret ==
    [exists |-> FALSE, data |-> <<>>, checksum |-> [ok |-> FALSE, sum |-> <<>>],
     labels |-> {}, owner |-> ""]

\* The variables a specification does not use.
Idle ==
    /\ rDep = EmptyDeployment /\ rCrb = EmptyBinding /\ rCfg = EmptySecret
    /\ pcDep = "idle" /\ pcCrb = "idle" /\ pcCfg = "idle"
    /\ stale = [dep |-> FALSE, crb |-> FALSE, cfg |-> FALSE]
    /\ hist = <<>>
    /\ cycles = 0
    /\ edits = 0
    /\ uuids = 0

----------------------------------------------------------------------------
\* The handlers of the Deployment resource applied one after the other to
\* bounded Deployments, no other writer in between.

InitFn ==
    /\ Idle
    /\ tcpSpec \in TenantSpecs
    /\ tcpStatus \in {[Status0 EXCEPT !.enabled = e] : e \in BOOLEAN}
    /\ dep \in FnDeployments
    /\ crb = EmptyBinding
    /\ secret = EmptySecret
    /\ cfgIn = [connString |-> "", dataStore |-> ""]

FnApply(op, m) ==
    LET o == CreateOrUpdateOutcome(dep, dep, m, FALSE)
    IN  /\ Len(hist) < MaxFnOps
        /\ dep' = o.store
        /\ hist' = Append(hist, Done("dep", op, dep, o, Held(o, m),
                                     o.res = OperationResultUpdated))
        /\ UNCHANGED <<tcpSpec, tcpStatus, crb, secret, rDep, rCrb, rCfg, pcDep,
                       pcCrb, pcCfg, stale, cfgIn, cycles, edits, uuids>>

FnCreateOrUpdate == FnApply("CreateOrUpdate", DeploymentMutate(dep, tcpSpec, tcpStatus))

FnCleanUp == FnApply("CleanUp", CleanUpMutate(dep))

NextFn == FnCreateOrUpdate \/ FnCleanUp

SpecFn == InitFn /\ [][NextFn]_vars

----------------------------------------------------------------------------
\* The cycles of the Deployment resource, with another writer of the
\* Deployment and changes of the tenant's Spec.

Init ==
    /\ Idle
    /\ tcpSpec \in {s \in TenantSpecs : s.konn # Konnectivity2}
    /\ tcpStatus \in {[Status0 EXCEPT !.enabled = e] : e \in BOOLEAN}
    /\ dep \in CycleDeployments
    /\ crb = EmptyBinding
    /\ secret = EmptySecret
    /\ cfgIn = [connString |-> "", dataStore |-> ""]

Next ==
    \/ DepDefine
    \/ DepFetch
    \/ DepCleanUp
    \/ DepCreateOrUpdate
    \/ DepUpdateTenantControlPlaneStatus
    \/ DepEndCycle
    \/ ChangeSpec(TenantSpecs)
    \/ EditDeployment

Spec == Init /\ [][Next]_vars

----------------------------------------------------------------------------
\* Properties of the Deployment resource.

DepOps == {i \in DOMAIN hist : hist[i].kind = "dep"}

\* b ran right after a on the object a left, no other writer in between.
Follows(a, b) == a.kind = b.kind /\ b.pre = a.post

Injected(e) ==
    e.kind = "dep" /\ e.op = "CreateOrUpdate" /\ e.spec.konn.present /\ e.err = NoErr

CleanedUp(e) == e.kind = "dep" /\ e.op = "CleanUp" /\ e.err = NoErr

OnlyPrimary(d) ==
    d.exists /\ Len(d.containers) = 1 /\ d.containers[1].name = kubeAPIServerName

PrimaryFlags(d) == DOMAIN ArgsFromSliceToMap(Primary(d).args)

\* C1: injection/removal symmetry. On a Deployment holding only the primary
\* container and no volume of the add-on's names, inject followed by CleanUp
\* gives back the containers, the volumes and the primary container's
\* arguments and volume mounts.
C1_InjectCleanUpSymmetry ==
    \A i \in DOMAIN hist : i + 1 \in DOMAIN hist =>
        LET a == hist[i]
            b == hist[i + 1]
        IN  (/\ Injected(a) /\ CleanedUp(b) /\ Follows(a, b)
             /\ OnlyPrimary(a.pre)
             /\ Names(a.pre.volumes) \cap AddonNames = {})
            => /\ Len(b.post.containers) = 1
               /\ b.post.containers = a.pre.containers
               /\ b.post.volumes = a.pre.volumes
               /\ Primary(b.post).args = Primary(a.pre).args
               /\ Primary(b.post).mounts = Primary(a.pre).mounts

\* C2: injection idempotence. A second inject on the result of the first,
\* same Spec and Status, leaves containers and volumes as the first left them.
C2_InjectIdempotent ==
    \A i \in DOMAIN hist : i + 1 \in DOMAIN hist =>
        LET a == hist[i]
            b == hist[i + 1]
        IN  (/\ Injected(a) /\ Injected(b) /\ Follows(a, b)
             /\ a.spec = b.spec /\ a.status = b.status
             /\ HasPrimary(a.pre))
            => /\ b.post.containers = a.post.containers
               /\ b.post.volumes = a.post.volumes
               /\ CountNamed(b.post.containers, konnectivityServerName) = 1
               /\ b.res = OperationResultNone

C2_Witness ==
    /\ Len(hist) = 2
    /\ Injected(hist[1]) /\ Injected(hist[2]) /\ Follows(hist[1], hist[2])
    /\ hist[1].res = OperationResultUpdated
    /\ HasPrimary(hist[1].pre)
    /\ ~HasSidecar(hist[1].pre)
    /\ Len(Primary(hist[1].pre).args) = 2

\* C5: inject precondition. With the add-on enabled and no container called
\* kube-apiserver (no Deployment, no container, or only others),
\* CreateOrUpdate returns an error and the stored Deployment is as before.
C5_InjectNeedsPrimary ==
    \A i \in DepOps :
        LET e == hist[i]
        IN  (e.op = "CreateOrUpdate" /\ e.spec.konn.present /\ ~HasPrimary(e.pre))
            => /\ e.err # NoErr
               /\ e.post = e.pre
               /\ e.res = OperationResultNone

C5_Witness ==
    /\ hist # <<>>
    /\ Last.kind = "dep" /\ Last.op = "CreateOrUpdate" /\ Last.spec.konn.present
    /\ Last.pre.exists
    /\ Len(Last.pre.containers) > 0
    /\ ~HasPrimary(Last.pre)
    /\ Last.err = ErrMissingAPIServer
    /\ dep = Last.pre

\* No sidecar, no flag, no volume and no mount of the add-on.
NeverInjected(d) ==
    /\ d.exists
    /\ ~HasSidecar(d)
    /\ Names(d.volumes) \cap AddonNames = {}
    /\ HasPrimary(d) =>
          /\ egressSelectorFlag \notin PrimaryFlags(d)
          /\ Names(Primary(d).mounts) \cap AddonNames = {}

\* C7: cleanup safety. CleanUp on a Deployment that never had the sidecar
\* injected changes nothing in the store and returns false and no error.
C7_CleanUpNoOp ==
    \A i \in DepOps :
        LET e == hist[i]
        IN  (e.op = "CleanUp" /\ NeverInjected(e.pre))
            => /\ e.post = e.pre
               /\ ~e.didWork
               /\ e.err = NoErr

C7_Witness ==
    /\ hist # <<>>
    /\ Last.kind = "dep" /\ Last.op = "CleanUp"
    /\ NeverInjected(Last.pre)
    /\ HasPrimary(Last.pre)
    /\ Len(Primary(Last.pre).args) = 2
    /\ Primary(Last.pre).args # ArgsFromMapToSlice(ArgsFromSliceToMap(Primary(Last.pre).args))
    /\ dep = Last.pre

\* C8: complete and repeatable removal. After a successful CleanUp there is
\* no sidecar, the primary container has neither the flag nor the mounts of
\* the add-on, none of the three volumes of the add-on is left, and a second
\* CleanUp right after changes nothing.
C8_CleanUpComplete ==
    \A i \in DepOps :
        LET e == hist[i]
        IN  CleanedUp(e) =>
            /\ ~HasSidecar(e.post)
            /\ HasPrimary(e.post) =>
                  /\ egressSelectorFlag \notin PrimaryFlags(e.post)
                  /\ Names(Primary(e.post).mounts) \cap AddonNames = {}
            /\ Names(e.post.volumes) \cap AddonNames = {}
            /\ (i + 1 \in DOMAIN hist /\ CleanedUp(hist[i + 1])
                    /\ Follows(e, hist[i + 1]))
                  => hist[i + 1].post = e.post

\* C9: CleanUp returns true exactly when the call changed the store.
C9_DidWorkIffChanged ==
    \A i \in DOMAIN hist :
        hist[i].op = "CleanUp" => (hist[i].didWork <=> hist[i].post # hist[i].pre)

\* The three cycles of the scenario: the add-on absent, present, absent, each
\* cycle on what the one before left, starting from a pristine Deployment with
\* the primary container.
Scenario(a, b, c) ==
    /\ a.kind = "dep" /\ Follows(a, b) /\ Follows(b, c)
    /\ ~a.spec.konn.present /\ b.spec.konn.present /\ ~c.spec.konn.present
    /\ a.err = NoErr /\ b.err = NoErr /\ c.err = NoErr
    /\ a.pre.exists /\ HasPrimary(a.pre) /\ Pristine(a.pre)

MountedSomewhere(d, name) ==
    \E k \in DOMAIN d.containers : name \in Names(d.containers[k].mounts)

----------------------------------------------------------------------------
\* ClusterRoleBindingResource.

ErrTenantClient == "cannot get Tenant Control Plane client"

KamajiLabels == {<<"kamaji.clastix.io/project", "kamaji">>}

CrbShouldStatusBeUpdated == tcpStatus.crbName # CertCommonName

\* As CrbShouldCleanup, without the test of the recorded name.
CrbShouldCleanupIgnoresName == ~tcpSpec.konn.present

CrbShouldCleanup == ~tcpSpec.konn.present /\ Len(tcpStatus.crbName) > 0

RoleRef ==
    [apiGroup |-> "rbac.authorization.k8s.io", kind |-> "ClusterRole",
     name |-> roleAuthDelegator]

Subject ==
    [apiGroup |-> "rbac.authorization.k8s.io", kind |-> "User",
     name |-> CertCommonName]

\* As CrbMutate, the subject added to the list when it is not in it.
CrbMutateAddsSubject(obj) ==
    [err |-> NoErr,
     obj |-> [obj EXCEPT
        !.labels = KamajiLabels \cup {<<"kubernetes.io/cluster-service", "true">>,
                                      <<"addonmanager.kubernetes.io/mode", "Reconcile">>},
        !.roleRef = RoleRef,
        !.subjects = IF \E k \in DOMAIN @ : @[k] = Subject
                     THEN @ ELSE Append(@, Subject)]]

\* ClusterRoleBindingResource.mutate: labels, role reference and subjects are
\* assigned whatever they were.
CrbMutate(obj) ==
    [err |-> NoErr,
     obj |-> [obj EXCEPT
        !.labels = KamajiLabels \cup {<<"kubernetes.io/cluster-service", "true">>,
                                      <<"addonmanager.kubernetes.io/mode", "Reconcile">>},
        !.roleRef = RoleRef,
        !.subjects = <<Subject>>]]

\* Define: a new shell and the tenant client; when the client cannot be
\* built Define returns the error and the cycle of this resource ends.
CrbDefine ==
    /\ pcCrb = "idle"
    /\ cycles < MaxCycles
    /\ cycles' = cycles + 1
    /\ rCrb' = EmptyBinding
    /\ \E clientErr \in {NoErr, ErrTenantClient} :
          pcCrb' = IF clientErr = NoErr THEN "defined" ELSE "idle"
    /\ UNCHANGED <<tcpSpec, tcpStatus, dep, crb, secret, rDep, rCfg, pcDep,
                   pcCfg, stale, cfgIn, hist, edits, uuids>>

\* tenantClient.Delete: the store fails, or the binding is not there, or it
\* is deleted.
TenantDelete(cur, storeErr) ==
    IF storeErr # NoErr THEN [store |-> cur, err |-> storeErr]
    ELSE IF ~cur.exists THEN [store |-> cur, err |-> ErrNotFound]
    ELSE [store |-> EmptyBinding, err |-> NoErr]

\* As CrbCleanUpOutcome, without the test for not-found.
CrbCleanUpOutcomeStrict(del) ==
    IF del.err # NoErr
    THEN [store |-> del.store, res |-> OperationResultNone, err |-> del.err,
          didWork |-> FALSE]
    ELSE [store |-> del.store, res |-> OperationResultUpdated, err |-> NoErr,
          didWork |-> TRUE]

\* What CleanUp returns for the answer of Delete.
CrbCleanUpOutcome(del) ==
    IF del.err # NoErr
    THEN IF del.err = ErrNotFound
         THEN [store |-> del.store, res |-> OperationResultNone, err |-> NoErr,
               didWork |-> FALSE]
         ELSE [store |-> del.store, res |-> OperationResultNone, err |-> del.err,
               didWork |-> FALSE]
    ELSE [store |-> del.store, res |-> OperationResultUpdated, err |-> NoErr,
          didWork |-> TRUE]

\* CleanUp when the store answers Delete with storeErr, or serves it.
CrbCleanUpWith(storeErr) ==
    /\ pcCrb = "defined"
    /\ CrbShouldCleanup
    /\ LET del == TenantDelete(crb, storeErr)
           o == CrbCleanUpOutcome(del)
       IN  /\ crb' = o.store
           /\ hist' = Append(hist, Done("crb", "CleanUp", crb, o, rCrb, o.didWork)
                                   @@ [storeErr |-> del.err])
    /\ pcCrb' = "status"
    /\ UNCHANGED <<tcpSpec, tcpStatus, dep, secret, rDep, rCrb, rCfg, pcDep,
                   pcCfg, stale, cfgIn, cycles, edits, uuids>>

CrbCleanUp == \E storeErr \in {NoErr, ErrForbidden} : CrbCleanUpWith(storeErr)

\* CreateOrUpdate with the add-on absent from Spec: nothing is read or written.
CrbCreateOrUpdateAbsent ==
    /\ pcCrb = "defined"
    /\ ~CrbShouldCleanup
    /\ ~tcpSpec.konn.present
    /\ hist' = Append(hist, Done("crb", "CreateOrUpdate", crb,
                    [store |-> crb, res |-> OperationResultNone, err |-> NoErr],
                    rCrb, FALSE))
    /\ pcCrb' = "status"
    /\ UNCHANGED <<tcpSpec, tcpStatus, dep, crb, secret, rDep, rCrb, rCfg, pcDep,
                   pcCfg, stale, cfgIn, cycles, edits, uuids>>

\* The Get of controllerutil.CreateOrUpdate.
CrbFetch ==
    /\ pcCrb = "defined"
    /\ ~CrbShouldCleanup
    /\ tcpSpec.konn.present
    /\ rCrb' = crb
    /\ stale' = [stale EXCEPT !.crb = FALSE]
    /\ pcCrb' = "createOrUpdate"
    /\ UNCHANGED <<tcpSpec, tcpStatus, dep, crb, secret, rDep, rCfg, pcDep,
                   pcCfg, cfgIn, hist, cycles, edits, uuids>>

\* controllerutil.CreateOrUpdate is called once: its error is the result.
CrbCreateOrUpdate ==
    /\ pcCrb = "createOrUpdate"
    /\ LET m == CrbMutate(rCrb)
           o == CreateOrUpdateOutcome(crb, rCrb, m, stale.crb)
       IN  /\ crb' = o.store
           /\ rCrb' = Held(o, m)
           /\ hist' = Append(hist, Done("crb", "CreateOrUpdate", rCrb, o,
                                        Held(o, m), FALSE))
    /\ pcCrb' = "status"
    /\ UNCHANGED <<tcpSpec, tcpStatus, dep, secret, rDep, rCfg, pcDep, pcCfg,
                   stale, cfgIn, cycles, edits, uuids>>

\* As CrbUpdateTenantControlPlaneStatus, the whole add-on status cleared when
\* the add-on is absent from Spec, the Enabled flag with the binding.
CrbUpdateStatusClearsAddon ==
    /\ pcCrb = "status"
    /\ Last.err = NoErr
    /\ CrbShouldStatusBeUpdated
    /\ tcpStatus' = IF tcpSpec.konn.present
                    THEN [tcpStatus EXCEPT !.enabled = TRUE, !.crbName = CertCommonName]
                    ELSE [tcpStatus EXCEPT !.enabled = FALSE, !.crbName = ""]
    /\ pcCrb' = "idle"
    /\ UNCHANGED <<tcpSpec, dep, crb, secret, rDep, rCrb, rCfg, pcDep, pcCfg,
                   stale, cfgIn, hist, cycles, edits, uuids>>

CrbUpdateTenantControlPlaneStatus ==
    /\ pcCrb = "status"
    /\ Last.err = NoErr
    /\ CrbShouldStatusBeUpdated
    /\ tcpStatus' = IF tcpSpec.konn.present
                    THEN [tcpStatus EXCEPT !.enabled = TRUE, !.crbName = CertCommonName]
                    ELSE [tcpStatus EXCEPT !.crbName = ""]
    /\ pcCrb' = "idle"
    /\ UNCHANGED <<tcpSpec, dep, crb, secret, rDep, rCrb, rCfg, pcDep, pcCfg,
                   stale, cfgIn, hist, cycles, edits, uuids>>

CrbEndCycle ==
    /\ pcCrb = "status"
    /\ Last.err # NoErr \/ ~CrbShouldStatusBeUpdated
    /\ pcCrb' = "idle"
    /\ UNCHANGED <<tcpSpec, tcpStatus, dep, crb, secret, rDep, rCrb, rCfg,
                   pcDep, pcCfg, stale, cfgIn, hist, cycles, edits, uuids>>

\* Another actor writes the binding in the tenant cluster.
OtherActorBindings(b) ==
    {[b EXCEPT !.subjects = Append(@, [apiGroup |-> "rbac.authorization.k8s.io",
                                        kind |-> "User", name |-> "mallory"])],
     [b EXCEPT !.roleRef.name = "cluster-admin",
               !.labels = @ \cup {<<"team", "a">>}]}

EditBinding ==
    /\ edits < MaxEdits
    /\ crb.exists
    /\ \E b \in OtherActorBindings(crb) : crb' = b
    /\ stale' = [stale EXCEPT !.crb = TRUE]
    /\ edits' = edits + 1
    /\ UNCHANGED <<tcpSpec, tcpStatus, dep, secret, rDep, rCrb, rCfg, pcDep,
                   pcCrb, pcCfg, cfgIn, hist, cycles, uuids>>

InitCrb ==
    /\ Idle
    /\ tcpSpec \in {s \in TenantSpecs : s.konn # Konnectivity2}
    /\ tcpStatus \in {[Status0 EXCEPT !.enabled = e, !.crbName = n] :
                        e \in BOOLEAN, n \in {"", CertCommonName}}
    /\ dep = EmptyDeployment
    /\ crb \in {EmptyBinding, [CrbMutate(EmptyBinding).obj EXCEPT !.exists = TRUE]}
               \cup OtherActorBindings([CrbMutate(EmptyBinding).obj EXCEPT !.exists = TRUE])
    /\ secret = EmptySecret
    /\ cfgIn = [connString |-> "", dataStore |-> ""]

NextCrb ==
    \/ CrbDefine
    \/ CrbCleanUp
    \/ CrbCreateOrUpdateAbsent
    \/ CrbFetch
    \/ CrbCreateOrUpdate
    \/ CrbUpdateTenantControlPlaneStatus
    \/ CrbEndCycle
    \/ ChangeSpec({s \in TenantSpecs : s.konn # Konnectivity2})
    \/ EditBinding

SpecCrb == InitCrb /\ [][NextCrb]_vars

----------------------------------------------------------------------------
\* Properties of the ClusterRoleBinding resource and of the store protocol.

\* C3: conflict transparency. No CreateOrUpdate, of any resource kind, returns
\* a version conflict to its caller.
C3_NoConflictReturned ==
    \A i \in DOMAIN hist :
        hist[i].op = "CreateOrUpdate" => hist[i].err # ErrConflict

CrbCleanUps == {i \in DOMAIN hist : hist[i].kind = "crb" /\ hist[i].op = "CleanUp"}

\* C10: delete tolerates absence. CleanUp of the binding returns no error
\* when Delete answers not-found, and returns any other error of Delete as it
\* is, the binding left as it was.
C10_DeleteToleratesAbsence ==
    \A i \in CrbCleanUps :
        LET e == hist[i]
        IN  /\ e.storeErr = ErrNotFound =>
                  e.err = NoErr /\ ~e.didWork /\ ~e.post.exists
            /\ e.storeErr \notin {NoErr, ErrNotFound} =>
                  e.err = e.storeErr /\ ~e.didWork /\ e.post = e.pre
            /\ e.storeErr = NoErr =>
                  e.err = NoErr /\ e.didWork /\ e.pre.exists /\ ~e.post.exists

C10_Witness ==
    /\ \E i \in CrbCleanUps : hist[i].storeErr = ErrNotFound
    /\ \E i \in CrbCleanUps :
          hist[i].storeErr = ErrForbidden /\ hist[i].pre.exists /\ crb.exists

----------------------------------------------------------------------------
\* Config, the datastore secret.

\* A digest that differs whenever the payloads differ.
CalculateMapChecksum(data) == <<"md5", data>>

\* The value of a key of the payload, empty when the key is missing.
Bytes(data, key) == IF key \in DOMAIN data THEN data[key] ELSE <<>>

\* The n-th password uuid.New() returns.
NewPassword(n) == <<"uuid", n>>

Coalesce(fromStatus) == IF Len(fromStatus) > 0 THEN fromStatus ELSE "ns_tenant"

\* ctrl.SetControllerReference: an object controlled by another owner is refused.
SetControllerReference(owner) ==
    IF owner \in {"", "tenant"} THEN [err |-> NoErr, owner |-> "tenant"]
    ELSE [err |-> ErrAlreadyOwned, owner |-> owner]

ConfigPayload(status, conn, password) ==
    [DB_CONNECTION_STRING |-> conn,
     DB_SCHEMA |-> Coalesce(status.setupSchema),
     DB_USER |-> Coalesce(status.setupUser),
     DB_PASSWORD |-> password]

ConfigLabels ==
    KamajiLabels \cup {<<"kamaji.clastix.io/name", "tenant">>,
                       <<"kamaji.clastix.io/component", "datastore-config">>}

\* As ConfigPassword, trusting any annotation that exists.
ConfigPasswordAnyAnnotation(obj, n) ==
    IF obj.checksum.ok THEN Bytes(obj.data, "DB_PASSWORD") ELSE NewPassword(n)

\* The switch of Config.mutate: the stored password when the annotation
\* exists and is the checksum of the stored payload, a new one otherwise.
ConfigPassword(obj, n) ==
    IF obj.checksum.ok /\ obj.checksum.sum = CalculateMapChecksum(obj.data)
    THEN Bytes(obj.data, "DB_PASSWORD")
    ELSE NewPassword(n)

\* As ConfigMutate, the annotation computed before the payload is assigned.
ConfigMutateStaleChecksum(obj, status, conn, n) ==
    LET data == ConfigPayload(status, conn, ConfigPassword(obj, n))
        ref  == SetControllerReference(obj.owner)
    IN  [err |-> ref.err,
         obj |-> [obj EXCEPT !.data = data,
                             !.checksum = [ok |-> TRUE,
                                           sum |-> CalculateMapChecksum(obj.data)],
                             !.labels = ConfigLabels,
                             !.owner = ref.owner]]

\* Config.mutate, n the number of the next generated password.
ConfigMutate(obj, status, conn, n) ==
    LET data == ConfigPayload(status, conn, ConfigPassword(obj, n))
        ref  == SetControllerReference(obj.owner)
    IN  [err |-> ref.err,
         obj |-> [obj EXCEPT !.data = data,
                             !.checksum = [ok |-> TRUE, sum |-> CalculateMapChecksum(data)],
                             !.labels = ConfigLabels,
                             !.owner = ref.owner]]

\* Whether the mutation drew a new password.
Generates(obj) == ConfigPassword(obj, 0) = NewPassword(0)

\* As CfgShouldStatusBeUpdated, without the comparison of the checksums.
CfgShouldStatusBeUpdatedNameOnly == tcpStatus.dataStoreName # cfgIn.dataStore

CfgShouldStatusBeUpdated ==
    \/ tcpStatus.checksum # rCfg.checksum.sum
    \/ tcpStatus.dataStoreName # cfgIn.dataStore

CfgDefine ==
    /\ pcCfg = "idle"
    /\ cycles < MaxCycles
    /\ rCfg' = EmptySecret
    /\ pcCfg' = "defined"
    /\ cycles' = cycles + 1
    /\ UNCHANGED <<tcpSpec, tcpStatus, dep, crb, secret, rDep, rCrb, pcDep,
                   pcCrb, stale, cfgIn, hist, edits, uuids>>

\* The fetch of CreateOrUpdateWithConflict; ShouldCleanup is always false.
CfgFetch ==
    /\ pcCfg = "defined"
    /\ rCfg' = secret
    /\ stale' = [stale EXCEPT !.cfg = FALSE]
    /\ pcCfg' = "createOrUpdate"
    /\ UNCHANGED <<tcpSpec, tcpStatus, dep, crb, secret, rDep, rCrb, pcDep,
                   pcCrb, cfgIn, hist, cycles, edits, uuids>>

CfgCreateOrUpdate ==
    /\ pcCfg = "createOrUpdate"
    /\ LET m == ConfigMutate(rCfg, tcpStatus, cfgIn.connString, uuids + 1)
           o == CreateOrUpdateOutcome(secret, rCfg, m, stale.cfg)
       IN  /\ uuids' = IF Generates(rCfg) THEN uuids + 1 ELSE uuids
           /\ IF RetriesOnConflict(o.err)
              THEN /\ pcCfg' = "defined"
                   /\ rCfg' = m.obj
                   /\ UNCHANGED <<secret, hist>>
              ELSE /\ pcCfg' = "status"
                   /\ secret' = o.store
                   /\ rCfg' = Held(o, m)
                   /\ hist' = Append(hist, Done("cfg", "CreateOrUpdate", rCfg, o,
                                                Held(o, m), FALSE)
                                           @@ [conn |-> cfgIn.connString])
    /\ UNCHANGED <<tcpSpec, tcpStatus, dep, crb, rDep, rCrb, pcDep, pcCrb,
                   stale, cfgIn, cycles, edits>>

CfgUpdateTenantControlPlaneStatus ==
    /\ pcCfg = "status"
    /\ Last.err = NoErr
    /\ CfgShouldStatusBeUpdated
    /\ tcpStatus' = [tcpStatus EXCEPT !.driver = "etcd",
                                      !.dataStoreName = cfgIn.dataStore,
                                      !.secretName = "tenant-datastore-config",
                                      !.checksum = rCfg.checksum.sum]
    /\ pcCfg' = "idle"
    /\ UNCHANGED <<tcpSpec, dep, crb, secret, rDep, rCrb, rCfg, pcDep, pcCrb,
                   stale, cfgIn, hist, cycles, edits, uuids>>

CfgEndCycle ==
    /\ pcCfg = "status"
    /\ Last.err # NoErr \/ ~CfgShouldStatusBeUpdated
    /\ pcCfg' = "idle"
    /\ UNCHANGED <<tcpSpec, tcpStatus, dep, crb, secret, rDep, rCrb, rCfg,
                   pcDep, pcCrb, stale, cfgIn, hist, cycles, edits, uuids>>

\* Another actor writes the secret: it replaces the password, or drops the
\* annotation, and leaves the rest.
OtherActorSecrets(sec) ==
    {[sec EXCEPT !.data = [k \in DOMAIN @ \cup {"DB_PASSWORD"} |->
                              IF k = "DB_PASSWORD" THEN <<"set by hand", 0>> ELSE @[k]]],
     [sec EXCEPT !.checksum = [ok |-> FALSE, sum |-> <<>>]]}

EditSecret ==
    /\ edits < MaxEdits
    /\ secret.exists
    /\ \E sec \in OtherActorSecrets(secret) : sec # secret /\ secret' = sec
    /\ stale' = [stale EXCEPT !.cfg = TRUE]
    /\ edits' = edits + 1
    /\ UNCHANGED <<tcpSpec, tcpStatus, dep, crb, rDep, rCrb, rCfg, pcDep,
                   pcCrb, pcCfg, cfgIn, hist, cycles, uuids>>

ConnStrings == {"etcd-0:2379", "etcd-1:2379"}

\* Between two cycles the connection string changes, or the datastore set-up
\* records the schema and the user it chose.
ChangeConfig ==
    /\ pcCfg = "idle"
    /\ 0 < cycles /\ cycles < MaxCycles
    /\ \/ /\ \E c \in ConnStrings : c # cfgIn.connString
                                     /\ cfgIn' = [cfgIn EXCEPT !.connString = c]
          /\ UNCHANGED tcpStatus
       \/ /\ tcpStatus.setupSchema = ""
          /\ tcpStatus' = [tcpStatus EXCEPT !.setupSchema = "legacy_schema",
                                            !.setupUser = "legacy_user"]
          /\ UNCHANGED cfgIn
    /\ UNCHANGED <<tcpSpec, dep, crb, secret, rDep, rCrb, rCfg, pcDep, pcCrb,
                   pcCfg, stale, hist, cycles, edits, uuids>>

\* A secret a previous cycle wrote, with a password of its own.
StoredSecret(conn, owner) ==
    LET data == ConfigPayload(Status0, conn, <<"stored", 0>>)
    IN  [exists |-> TRUE, data |-> data,
         checksum |-> [ok |-> TRUE, sum |-> CalculateMapChecksum(data)],
         labels |-> ConfigLabels, owner |-> owner]

InitCfg ==
    /\ Idle
    /\ tcpSpec = [konn |-> NilKonnectivity, replicas |-> 2]
    /\ tcpStatus = Status0
    /\ dep = EmptyDeployment
    /\ crb = EmptyBinding
    /\ secret \in {EmptySecret, [EmptySecret EXCEPT !.exists = TRUE],
                   StoredSecret("etcd-0:2379", "tenant"),
                   StoredSecret("etcd-0:2379", "other")}
                  \cup OtherActorSecrets(StoredSecret("etcd-0:2379", "tenant"))
    /\ cfgIn = [connString |-> "etcd-0:2379", dataStore |-> "default"]

NextCfg ==
    \/ CfgDefine
    \/ CfgFetch
    \/ CfgCreateOrUpdate
    \/ CfgUpdateTenantControlPlaneStatus
    \/ CfgEndCycle
    \/ EditSecret
    \/ ChangeConfig

SpecCfg == InitCfg /\ [][NextCfg]_vars

CfgOps == {i \in DOMAIN hist : hist[i].kind = "cfg" /\ hist[i].err = NoErr}

Trusted(obj) == obj.checksum.ok /\ obj.checksum.sum = CalculateMapChecksum(obj.data)

Password(obj) == Bytes(obj.data, "DB_PASSWORD")

\* C4: credential preservation. When the stored annotation exists and is the
\* checksum of the stored payload, the password written is the stored one, so
\* it stays the same over the cycles without other writers, whatever else
\* changes in the payload; when the annotation is missing or differs, the
\* password written is a newly generated one, different from the stored one.
C4_CredentialPreservation ==
    \A i \in CfgOps :
        LET e == hist[i]
        IN  /\ Trusted(e.pre) => Password(e.obj) = Password(e.pre)
            /\ ~Trusted(e.pre) =>
                  /\ Password(e.obj) # Password(e.pre)
                  /\ \E n \in 1..uuids : Password(e.obj) = NewPassword(n)
                  /\ \A j \in CfgOps : j < i => Password(hist[j].obj) # Password(e.obj)
                  /\ Password(e.post) = Password(e.obj)
            /\ (i + 1 \in CfgOps /\ e.post = e.obj /\ Follows(e, hist[i + 1]))
                  => Password(hist[i + 1].obj) = Password(e.obj)

C4_Witness ==
    /\ Len(hist) >= 3
    /\ {1, 2, 3} \subseteq CfgOps
    /\ Follows(hist[1], hist[2])
    /\ hist[1].conn # hist[2].conn
    /\ hist[2].res = OperationResultUpdated
    /\ hist[1].post = hist[1].obj
    /\ Password(hist[2].obj) = Password(hist[1].obj)
    /\ ~Follows(hist[2], hist[3])
    /\ hist[3].pre.checksum.ok /\ ~Trusted(hist[3].pre)
    /\ Password(hist[3].post) # Password(hist[3].pre)

----------------------------------------------------------------------------
\* The driver: the three resource kinds run their cycles one at a time, in any
\* order, on one tenant, with no other writer of the stores.

\* A Deployment of a tenant without the add-on, and the same one injected.
PlainDeployment ==
    [exists |-> TRUE,
     containers |-> <<OtherContainer,
                      PrimaryContainer(<< <<"--v", "4">> >>,
                          <<[name |-> "data", mountPath |-> "/data",
                             subPath |-> "", readOnly |-> FALSE]>>)>>,
     volumes |-> <<[name |-> "data", kind |-> "HostPath", ref |-> "/data",
                    mode |-> 0]>>]

InjectedDeployment ==
    DeploymentMutate(PlainDeployment, [konn |-> Konnectivity1, replicas |-> 2],
                     Status0).obj

DesiredBinding == [CrbMutate(EmptyBinding).obj EXCEPT !.exists = TRUE]

OthersIdle(pcA, pcB) == pcA = "idle" /\ pcB = "idle"

DriverDepDefine == OthersIdle(pcCrb, pcCfg) /\ DepDefine

DriverCrbDefine == OthersIdle(pcDep, pcCfg) /\ CrbDefine

DriverCfgDefine == OthersIdle(pcDep, pcCrb) /\ CfgDefine

InitAll ==
    /\ Idle
    /\ tcpSpec \in {s \in TenantSpecs : s.konn # Konnectivity2}
    /\ tcpStatus \in {[Status0 EXCEPT !.enabled = e, !.crbName = n] :
                        e \in BOOLEAN, n \in {"", CertCommonName}}
    /\ dep \in {EmptyDeployment, PlainDeployment, InjectedDeployment}
    /\ crb \in {EmptyBinding, DesiredBinding}
    /\ secret \in {EmptySecret, StoredSecret("etcd-0:2379", "tenant")}
    /\ cfgIn = [connString |-> "etcd-0:2379", dataStore |-> "default"]

NextAll ==
    \/ DriverDepDefine
    \/ DepFetch
    \/ DepCleanUp
    \/ DepCreateOrUpdate
    \/ DepUpdateTenantControlPlaneStatus
    \/ DepEndCycle
    \/ DriverCrbDefine
    \/ CrbCleanUp
    \/ CrbCreateOrUpdateAbsent
    \/ CrbFetch
    \/ CrbCreateOrUpdate
    \/ CrbUpdateTenantControlPlaneStatus
    \/ CrbEndCycle
    \/ DriverCfgDefine
    \/ CfgFetch
    \/ CfgCreateOrUpdate
    \/ CfgUpdateTenantControlPlaneStatus
    \/ CfgEndCycle
    \/ ChangeSpec(TenantSpecs)

SpecAll == InitAll /\ [][NextAll]_vars

----------------------------------------------------------------------------
\* Properties of the cycle, for every resource kind.

\* The tenant does not ask for the add-on and Status records nothing of it.
NothingProvisioned(e) ==
    ~e.spec.konn.present /\ ~e.status.enabled /\ e.status.crbName = ""

\* C11: no-op when the feature is absent. For a tenant without the add-on in
\* Spec and with nothing recorded in Status, the operation of the cycle of the
\* Deployment resource and of the ClusterRoleBinding resource is
\* CreateOrUpdate, it returns 'none' without error, it creates, updates and
\* deletes nothing, and Status is as it was once the cycle has ended.
C11_NoOpWhenAbsent ==
    \A i \in DOMAIN hist :
        LET e == hist[i]
        IN  (e.kind \in {"dep", "crb"} /\ NothingProvisioned(e)) =>
                /\ e.op = "CreateOrUpdate"
                /\ e.res = OperationResultNone
                /\ e.err = NoErr
                /\ e.post.exists = e.pre.exists
                /\ ~e.didWork
                /\ (i = Len(hist) /\ pcDep = "idle" /\ pcCrb = "idle")
                        => tcpStatus = e.status

\* The entry before i of the same resource kind, 0 when there is none.
PrevOfKind(i) ==
    LET before == {j \in 1..(i - 1) : hist[j].kind = hist[i].kind}
    IN  IF before = {} THEN 0 ELSE CHOOSE j \in before : \A k \in before : k <= j

\* What the mutations read of the tenant: Spec, the names Status holds of the
\* add-on's config map and kubeconfig, the schema and user of the datastore
\* set-up, and the connection string of the Config resource.
MutationInputs(e) ==
    <<e.spec, e.status.configMapName, e.status.kubeconfigSecretName,
      e.status.setupSchema, e.status.setupUser,
      IF e.kind = "cfg" THEN e.conn ELSE "">>

\* Entry i is a CreateOrUpdate run again after the successful CreateOrUpdate
\* j of the same resource, same inputs, the object untouched in between.
RunAgain(j, i) ==
    /\ j = PrevOfKind(i) /\ j > 0
    /\ hist[j].op = "CreateOrUpdate" /\ hist[i].op = "CreateOrUpdate"
    /\ hist[j].err = NoErr
    /\ Follows(hist[j], hist[i])
    /\ MutationInputs(hist[j]) = MutationInputs(hist[i])

\* C12: mutation idempotence. For every resource kind, a CreateOrUpdate run
\* again after a successful one, with the same Spec and Status and no change
\* of the object in between, succeeds, returns 'none', writes nothing and
\* holds the object the first run held: for the Config secret the payload, the
\* password and the checksum annotation are those of the first run.
C12_MutationIdempotent ==
    \A i \in DOMAIN hist : \A j \in DOMAIN hist :
        RunAgain(j, i) =>
            /\ hist[i].err = NoErr
            /\ hist[i].res = OperationResultNone
            /\ hist[i].post = hist[i].pre
            /\ hist[i].obj = hist[j].obj

C12_Witness ==
    /\ Len(hist) >= 3
    /\ RunAgain(1, 3)
    /\ hist[1].kind = "cfg" /\ hist[1].res # OperationResultNone
    /\ ~Trusted(hist[1].pre)
    /\ Password(hist[3].post) = Password(hist[1].obj)
    /\ hist[2].kind = "dep" /\ hist[2].res = OperationResultUpdated

\* C13: ShouldCleanup. The cycle of the Deployment resource runs CleanUp
\* exactly when the add-on is absent from Spec and Status.Enabled is true, the
\* cycle of the ClusterRoleBinding resource exactly when the add-on is absent
\* from Spec and the recorded binding name is not empty, the cycle of the
\* Config resource never; with the add-on present in Spec no cycle runs
\* CleanUp.
C13_ShouldCleanup ==
    \A i \in DOMAIN hist :
        LET e == hist[i]
        IN  /\ e.kind = "dep" =>
                  (e.op = "CleanUp" <=> ~e.spec.konn.present /\ e.status.enabled)
            /\ e.kind = "crb" =>
                  (e.op = "CleanUp" <=>
                      ~e.spec.konn.present /\ Len(e.status.crbName) > 0)
            /\ e.kind = "cfg" => e.op = "CreateOrUpdate"
            /\ e.spec.konn.present => e.op = "CreateOrUpdate"

C13_Witness ==
    /\ Len(hist) >= 3
    /\ \E i \in DOMAIN hist : hist[i].kind = "dep" /\ hist[i].op = "CleanUp"
    /\ \E i \in DOMAIN hist : hist[i].kind = "cfg"
    /\ \E i \in DOMAIN hist :
          /\ hist[i].kind = "crb" /\ hist[i].op = "CreateOrUpdate"
          /\ ~hist[i].spec.konn.present /\ hist[i].status.enabled

\* The successful CreateOrUpdate calls of the ClusterRoleBinding resource with
\* the add-on enabled, no other actor writing between the Get and the return.
CrbEnsured ==
    {i \in DOMAIN hist :
        /\ hist[i].kind = "crb" /\ hist[i].op = "CreateOrUpdate"
        /\ hist[i].spec.konn.present /\ hist[i].err = NoErr
        /\ hist[i].res = OperationResultNone => hist[i].post = hist[i].pre}

\* C14: binding fully overwritten. With the add-on enabled, after a
\* successful CreateOrUpdate of the ClusterRoleBinding resource the stored
\* binding exists with the fixed role reference and the fixed user as its only
\* subject, whether the binding was absent before the call or held another
\* role reference or other subjects.
C14_BindingOverwritten ==
    \A i \in CrbEnsured :
        /\ hist[i].post.exists
        /\ hist[i].post.roleRef = RoleRef
        /\ hist[i].post.subjects = <<Subject>>

C14_Witness ==
    /\ \E i \in CrbEnsured :
          ~hist[i].pre.exists /\ hist[i].res = OperationResultCreated
    /\ \E i \in CrbEnsured :
          /\ Len(hist[i].pre.subjects) = 2
          /\ hist[i].res = OperationResultUpdated
    /\ \E i \in CrbEnsured :
          /\ hist[i].pre.exists /\ hist[i].pre.roleRef # RoleRef
          /\ hist[i].res = OperationResultUpdated

\* The edits of other actors the Deployment d shows: the volumes they added,
\* and the image and flag they set on the primary container.
EditsShown(d) ==
    CountNamed(d.volumes, "audit")
    + (IF HasPrimary(d)
          /\ Primary(d).image = <<"kube-apiserver", "v2">>
          /\ <<"--v", "9">> \in {Primary(d).args[k] : k \in DOMAIN Primary(d).args}
       THEN 1 ELSE 0)

\* The step is taken between the fetch and the persist of CreateOrUpdate or
\* CleanUp, after another actor wrote the Deployment, and is not a write of
\* another actor.
AfterStaleFetch ==
    /\ pcDep \in {"cleanup", "createOrUpdate"}
    /\ stale.dep
    /\ edits' = edits

\* C15: no lost update on the shared Deployment. Every edit another actor
\* committed, between the fetch and the persist of CreateOrUpdate or CleanUp
\* or at any other point, is in the stored Deployment from then on, and the
\* resource writes nothing it computed from a fetch older than the stored
\* Deployment.
C15_NoLostUpdate ==
    /\ [](EditsShown(dep) = edits)
    /\ [][AfterStaleFetch => dep' = dep /\ pcDep' \in {"defined", "status"}]_vars

\* A persist has just met the edit committed since its fetch: it holds the
\* object it computed, wrote nothing, and goes back to the fetch.
C15_Witness ==
    /\ pcDep = "defined" /\ stale.dep
    /\ rDep.exists /\ rDep # dep
    /\ EditsShown(rDep) = 0
    /\ edits > 0 /\ EditsShown(dep) = edits

\* The elements of s that are not called by one of names, in their order.
Except(s, names) == SelectSeq(s, LAMBDA x : x.name \notin names)

\* The containers of d other than the sidecar, in their order, the primary
\* container without its arguments and its mounts.
FrameContainers(d) ==
    LET cs == Except(d.containers, {konnectivityServerName})
    IN  [k \in DOMAIN cs |->
            IF cs[k].name = kubeAPIServerName
            THEN [cs[k] EXCEPT !.args = <<>>, !.mounts = <<>>]
            ELSE cs[k]]

\* The mounts of the primary container that carry no name of the add-on.
FrameMounts(d) ==
    IF HasPrimary(d) THEN Except(Primary(d).mounts, AddonNames) ELSE <<>>

\* The successful operations of the Deployment resource on a stored Deployment.
DepChanges ==
    {i \in DepOps : hist[i].err = NoErr /\ hist[i].pre.exists}

\* C16: frame of inject and remove. A successful CreateOrUpdate or CleanUp
\* leaves every container other than the sidecar, every field of the primary
\* container other than its arguments and mounts, every mount of the primary
\* container and every volume not carrying a name of the add-on with its
\* value and at its place among the others.
C16_Frame ==
    \A i \in DepChanges :
        /\ FrameContainers(hist[i].post) = FrameContainers(hist[i].pre)
        /\ FrameMounts(hist[i].post) = FrameMounts(hist[i].pre)
        /\ Except(hist[i].post.volumes, AddonNames)
              = Except(hist[i].pre.volumes, AddonNames)

C16_Witness ==
    /\ Len(hist) = 2
    /\ {1, 2} \subseteq DepChanges
    /\ Injected(hist[1]) /\ hist[1].res = OperationResultUpdated
    /\ CleanedUp(hist[2]) /\ hist[2].res = OperationResultUpdated
    /\ Len(FrameContainers(hist[1].pre)) = 2
    /\ Len(FrameMounts(hist[1].pre)) = 1
    /\ \E k \in DOMAIN hist[1].pre.volumes :
          /\ k < Len(hist[1].pre.volumes)
          /\ hist[1].pre.volumes[k].name = konnectivityUDSVolume

\* The flags of an argument list, one per token, in the order of the list.
Flags(args) == [k \in DOMAIN args |-> args[k][1]]

NoFlagTwice(args) == Cardinality({args[k][1] : k \in DOMAIN args}) = Len(args)

\* The tokens of the flags the resource does not touch, in their order.
Untouched(args) == SelectSeq(args, LAMBDA t : t[1] # egressSelectorFlag)

\* The successful operations of the Deployment resource that found or left a
\* primary container.
PrimaryOps ==
    {i \in DepChanges : HasPrimary(hist[i].pre)
                        /\ (hist[i].op = "CleanUp" \/ hist[i].spec.konn.present)}

\* C17: argument set of the primary container. After inject and after
\* CleanUp no flag occurs twice in the argument list of the primary
\* container; after inject the egress selector flag is there once, with the
\* configuration path, after CleanUp it is not there; the tokens of the other
\* flags are those of the list before the operation, in the same order.
C17_ArgumentSet ==
    \A i \in PrimaryOps :
        LET before == Primary(hist[i].pre).args
            after  == Primary(hist[i].obj).args
        IN  /\ NoFlagTwice(after)
            /\ hist[i].op = "CreateOrUpdate" =>
                  \E k \in DOMAIN after :
                      after[k] = <<egressSelectorFlag,
                                   konnectivityEgressSelectorConfigurationPath>>
            /\ hist[i].op = "CleanUp" =>
                  egressSelectorFlag \notin {after[k][1] : k \in DOMAIN after}
            /\ NoFlagTwice(before) => Untouched(after) = Untouched(before)

NamesUnique(s) == Cardinality(Names(s)) = Len(s)

\* Container names, volume names and the mount names of the primary
\* container are each unique in d.
UniqueNames(d) ==
    /\ NamesUnique(d.containers)
    /\ NamesUnique(d.volumes)
    /\ HasPrimary(d) => NamesUnique(Primary(d).mounts)

\* At most one sidecar, and at most one volume and one mount of the primary
\* container for each name of the add-on.
AtMostOneEach(d) ==
    /\ CountNamed(d.containers, konnectivityServerName) <= 1
    /\ \A n \in AddonNames :
          /\ CountNamed(d.volumes, n) <= 1
          /\ HasPrimary(d) => CountNamed(Primary(d).mounts, n) <= 1

\* C18: name uniqueness. The cycles start from a Deployment with unique
\* container, volume and mount names; after any sequence of inject cycles,
\* CleanUp cycles and changes of Spec the stored Deployment, and every
\* Deployment an operation wrote on the way, has at most one container named
\* 'konnectivity-server' and at most one volume and one mount of the primary
\* container for each name of the add-on.
C18_NameUniqueness ==
    /\ AtMostOneEach(dep)
    /\ \A i \in DepOps :
          UniqueNames(hist[i].pre) =>
              AtMostOneEach(hist[i].obj) /\ AtMostOneEach(hist[i].post)

C18_Witness ==
    /\ Len(hist) = 3
    /\ Injected(hist[1]) /\ hist[1].res = OperationResultUpdated
    /\ Injected(hist[2]) /\ hist[2].res = OperationResultUpdated
    /\ hist[2].spec # hist[1].spec
    /\ CleanedUp(hist[3]) /\ hist[3].res = OperationResultUpdated
    /\ CountNamed(hist[2].post.containers, konnectivityServerName) = 1
    /\ \A n \in AddonNames : CountNamed(hist[2].post.volumes, n) = 1
    /\ UniqueNames(hist[1].pre)

\* The successful CreateOrUpdate calls of the Config resource during which no
\* other actor wrote the secret after the fetch.
CfgWritten ==
    {i \in CfgOps :
        hist[i].res = OperationResultNone => hist[i].post = hist[i].pre}

\* C19: checksum baseline. After a successful CreateOrUpdate of the Config
\* resource the stored secret holds the four fields and an annotation that is
\* the checksum of them; ShouldStatusBeUpdated is true exactly when the
\* checksum or the datastore name of Status differ from those of the
\* resource; and once the cycle has ended, with or without
\* UpdateTenantControlPlaneStatus, Status records that annotation and that name.
C19_ChecksumBaseline ==
    /\ \A i \in CfgWritten :
          /\ Trusted(hist[i].post)
          /\ hist[i].post = hist[i].obj
          /\ DOMAIN hist[i].post.data =
                {"DB_CONNECTION_STRING", "DB_SCHEMA", "DB_USER", "DB_PASSWORD"}
    /\ (pcCfg = "status" /\ Last.err = NoErr) =>
          (CfgShouldStatusBeUpdated <=>
              \/ tcpStatus.checksum # Last.obj.checksum.sum
              \/ tcpStatus.dataStoreName # cfgIn.dataStore)
    /\ (pcCfg = "idle" /\ hist # <<>> /\ Last.err = NoErr) =>
          /\ tcpStatus.checksum = Last.obj.checksum.sum
          /\ tcpStatus.dataStoreName = cfgIn.dataStore

C19_Witness ==
    /\ pcCfg = "idle" /\ Len(hist) >= 2
    /\ {1, 2} \subseteq CfgWritten
    /\ hist[2] = Last
    /\ hist[2].res = OperationResultUpdated
    /\ hist[2].status.checksum = hist[1].obj.checksum.sum
    /\ hist[2].obj.checksum.sum # hist[1].obj.checksum.sum
    /\ tcpStatus.checksum = hist[2].post.checksum.sum

\* The step is UpdateTenantControlPlaneStatus of the Deployment, the
\* ClusterRoleBinding or the Config resource.
DepStatusUpdated ==
    pcDep = "status" /\ pcDep' = "idle" /\ Last.err = NoErr /\ DepShouldStatusBeUpdated

CrbStatusUpdated ==
    pcCrb = "status" /\ pcCrb' = "idle" /\ Last.err = NoErr /\ CrbShouldStatusBeUpdated

CfgStatusUpdated ==
    pcCfg = "status" /\ pcCfg' = "idle" /\ Last.err = NoErr /\ CfgShouldStatusBeUpdated

\* C20: the status update reaches a fixed point. For every resource kind,
\* with the add-on enabled or absent, ShouldStatusBeUpdated is false right
\* after UpdateTenantControlPlaneStatus has run.
C20_StatusFixedPoint ==
    [][/\ DepStatusUpdated => ~DepShouldStatusBeUpdated'
       /\ CrbStatusUpdated => ~CrbShouldStatusBeUpdated'
       /\ CfgStatusUpdated => ~CfgShouldStatusBeUpdated']_vars

\* Some CreateOrUpdate of the Deployment resource, run with the add-on in
\* Spec, returned without error and left the sidecar in the stored Deployment.
InjectedByResource ==
    \E i \in 1..Len(hist) :
        /\ hist[i].kind = "dep" /\ hist[i].op = "CreateOrUpdate"
        /\ hist[i].spec.konn.present
        /\ hist[i].err = NoErr
        /\ HasSidecar(hist[i].post)

CycleBoundary == pcDep = "idle" /\ pcCrb = "idle" /\ pcCfg = "idle"

LeftoverSidecar ==
    CycleBoundary /\ ~tcpSpec.konn.present /\ HasSidecar(dep) /\ InjectedByResource

\* C22: no leaked sidecar. Between two cycles, when the add-on is absent from
\* Spec and the stored Deployment still has the 'konnectivity-server'
\* container this resource injected, ShouldCleanup of the Deployment resource
\* is true, whichever resources ran since and whatever they wrote to Status.
C22_NoLeakedSidecar == LeftoverSidecar => DepShouldCleanup

\* The add-on was removed after the injection and the ClusterRoleBinding
\* resource has run its cycle since, before the Deployment resource.
C22_Witness ==
    /\ LeftoverSidecar /\ DepShouldCleanup
    /\ Last.kind = "crb" /\ ~Last.spec.konn.present

----------------------------------------------------------------------------
\* Cycles without end: the driver keeps running the cycles of the Deployment
\* and the ClusterRoleBinding resources, one at a time in any order, the
\* stores answer without error, nobody else writes, and the add-on, once
\* removed from Spec, stays removed. The history holds the operation of the
\* cycle in progress only.

LiveDepDefine ==
    /\ OthersIdle(pcCrb, pcCfg)
    /\ pcDep = "idle"
    /\ rDep' = EmptyDeployment
    /\ pcDep' = "defined"
    /\ hist' = <<>>
    /\ UNCHANGED <<tcpSpec, tcpStatus, dep, crb, secret, rCrb, rCfg, pcCrb,
                   pcCfg, stale, cfgIn, cycles, edits, uuids>>

LiveCrbDefine ==
    /\ OthersIdle(pcDep, pcCfg)
    /\ pcCrb = "idle"
    /\ rCrb' = EmptyBinding
    /\ pcCrb' = "defined"
    /\ hist' = <<>>
    /\ UNCHANGED <<tcpSpec, tcpStatus, dep, crb, secret, rDep, rCfg, pcDep,
                   pcCfg, stale, cfgIn, cycles, edits, uuids>>

\* The add-on is removed from Spec between two cycles.
RemoveAddon ==
    /\ pcDep = "idle" /\ pcCrb = "idle"
    /\ tcpSpec.konn.present
    /\ tcpSpec' = [tcpSpec EXCEPT !.konn = NilKonnectivity]
    /\ UNCHANGED <<tcpStatus, dep, crb, secret, rDep, rCrb, rCfg, pcDep, pcCrb,
                   pcCfg, stale, cfgIn, hist, cycles, edits, uuids>>

\* Nothing is provisioned yet and the add-on is in Spec.
InitLive ==
    /\ Idle
    /\ tcpSpec \in {s \in TenantSpecs : s.konn.present}
    /\ tcpStatus = Status0
    /\ dep \in {EmptyDeployment, PlainDeployment}
    /\ crb = EmptyBinding
    /\ secret = EmptySecret
    /\ cfgIn = [connString |-> "", dataStore |-> ""]

DepCycle ==
    \/ DepFetch
    \/ DepCleanUp
    \/ DepCreateOrUpdate
    \/ DepUpdateTenantControlPlaneStatus
    \/ DepEndCycle

CrbCycle ==
    \/ CrbCleanUpWith(NoErr)
    \/ CrbCreateOrUpdateAbsent
    \/ CrbFetch
    \/ CrbCreateOrUpdate
    \/ CrbUpdateTenantControlPlaneStatus
    \/ CrbEndCycle

NextLive ==
    \/ LiveDepDefine
    \/ DepCycle
    \/ LiveCrbDefine
    \/ CrbCycle
    \/ RemoveAddon

\* The Deployment resource is at the mutation and write of CleanUp or of
\* CreateOrUpdate. That step can always be taken there and moves the resource
\* on, so its weak fairness is that the resource is not there forever.
DepPersisting == pcDep \in {"cleanup", "createOrUpdate"}

\* Every resource kind gets its cycle again and again, and a cycle that has
\* started goes on to its end.
SpecLive ==
    /\ InitLive /\ [][NextLive]_vars
    /\ SF_vars(LiveDepDefine) /\ WF_vars(DepFetch) /\ []<>~DepPersisting
    /\ WF_vars(DepUpdateTenantControlPlaneStatus \/ DepEndCycle)
    /\ SF_vars(LiveCrbDefine) /\ WF_vars(CrbCycle)

\* C21: cleanup converges. With the cycles running without end and without
\* store errors, from some point on ShouldCleanup is false for the Deployment
\* resource and for the ClusterRoleBinding resource, and stays false: after
\* the add-on was removed from Spec the recorded Enabled flag and binding
\* name end up cleared.
C21_CleanupConverges == <>[](~DepShouldCleanup /\ ~CrbShouldCleanup)

====
